---------------------------- MODULE Spec2Model ----------------------------
(***************************************************************************)
(* A model of python-payeer-asyncio: the PayeerAsyncIO client              *)
(* (src/payeer_asyncio/api.py) and the account validator                   *)
(* (src/payeer_asyncio/utils/account.py).                                  *)
(*                                                                         *)
(* Every call of the client is a coroutine.  A coroutine runs atomically   *)
(* from one suspension point to the next; the suspension points of a call  *)
(* are the entry of the transport scope (async with), the POST (await      *)
(* client.post) and the exit of the transport scope.  One action of the    *)
(* model is one such atomic piece.                                         *)
(***************************************************************************)
EXTENDS Integers, Sequences, FiniteSets, TLC

(***************************************************************************)
(* Python values.  A value is a record whose single field names its type,  *)
(* so that values of different types are comparable (and different).       *)
(* A Python str that the validator reads is a sequence of one-character    *)
(* strings; every other str is a TLA+ string.                              *)
(***************************************************************************)
PyNone == [none |-> TRUE]

PyStr(s) == [str |-> s]

PyInt(n) == [int |-> n]

PyBool(b) == [bool |-> b]

PyList(l) == [list |-> l]

PyDict(d) == [dict |-> d]

\* Python's truth value of an object, as `if x:' tests it.
Truthy(v) ==
    CASE "none" \in DOMAIN v -> FALSE
      [] "bool" \in DOMAIN v -> v.bool
      [] "int"  \in DOMAIN v -> v.int # 0
      [] "str"  \in DOMAIN v -> Len(v.str) # 0
      [] "list" \in DOMAIN v -> Len(v.list) # 0
      [] "dict" \in DOMAIN v -> DOMAIN v.dict # {}
      [] OTHER -> TRUE

\* A dict is a function from its keys to values.
EmptyDict == [k \in {} |-> PyNone]

\* d.update(other): the keys of both, other's value on a key of both.
DictUpdate(d, other) ==
    [k \in DOMAIN d \cup DOMAIN other |-> IF k \in DOMAIN other THEN other[k] ELSE d[k]]

\* d.get(key): the value, or None when the key is absent.
DictGet(d, key) == IF key \in DOMAIN d THEN d[key] ELSE PyNone

(***************************************************************************)
(* utils/account.py: re.match("^[Pp]{1}[0-9]{7,15}|.+@.+\..+$", wallet).   *)
(* A position is the number of characters consumed, 0 .. Len(s).  Each     *)
(* piece of the pattern maps the set of positions a match may have reached *)
(* to the set it may reach next; re.match tries the pattern at position 0  *)
(* only and succeeds when some way through the pattern exists.             *)
(***************************************************************************)
MinDigits == 7

MaxDigits == 15

IsDigit(ch) == ch \in {"0", "1", "2", "3", "4", "5", "6", "7", "8", "9"}

IsP(ch) == ch \in {"P", "p"}

\* `.' without re.DOTALL: any character but a line break.
IsDot(ch) == ch # "\n"

\* `$' without re.MULTILINE: the end of the string, or just before a final line break.
AtEnd(s, i) == i = Len(s) \/ (i = Len(s) - 1 /\ s[Len(s)] = "\n")

\* Whether the character is of the class the pattern names.
InClass(class, ch) ==
    CASE class = "[Pp]" -> IsP(ch)
      [] class = "[0-9]" -> IsDigit(ch)
      [] class = "." -> IsDot(ch)

\* x{lo,hi} from the positions `from': lo .. hi characters of the class.
Repeat(s, from, class, lo, hi) ==
    {j \in 0..Len(s) : \E i \in from :
        /\ j - i >= lo
        /\ j - i <= hi
        /\ \A k \in (i + 1)..j : InClass(class, s[k])}

\* One literal character.
Literal(s, from, ch) == {i + 1 : i \in {p \in from : p < Len(s) /\ s[p + 1] = ch}}

\* A faulty variant of PayeerAlternative: the lower count of the digits is one short.
PayeerAlternativeSix(s) ==
    Repeat(s, Repeat(s, {0}, "[Pp]", 1, 1), "[0-9]", MinDigits - 1, MaxDigits)

\* ^[Pp]{1}[0-9]{7,15}: the positions where the first alternative may end.
PayeerAlternative(s) ==
    Repeat(s, Repeat(s, {0}, "[Pp]", 1, 1), "[0-9]", MinDigits, MaxDigits)

\* .+@.+\..+$: the positions where the second alternative may end.
EmailAlternative(s) ==
    LET local  == Repeat(s, {0}, ".", 1, Len(s))
        at     == Literal(s, local, "@")
        domain == Repeat(s, at, ".", 1, Len(s))
        dot    == Literal(s, domain, ".")
        tld    == Repeat(s, dot, ".", 1, Len(s))
    IN  {i \in tld : AtEnd(s, i)}

\* re.match(pattern, wallet) is not None.
ReMatch(s) == PayeerAlternative(s) # {} \/ EmailAlternative(s) # {}

\* A faulty variant of ValidateAccountRaises: the coroutine is called without await,
\* so its body never runs and nothing is raised.
ValidateAccountNotAwaited(wallet) == FALSE

\* validate_account(wallet) raises ValueError('Wrong account format!').
ValidateAccountRaises(wallet) == ~ReMatch(wallet)

(***************************************************************************)
(* The outcome of a coroutine: a returned value or a raised exception.     *)
(***************************************************************************)
Return(v) == [kind |-> "return", exc |-> "", value |-> v]

Raise(e, v) == [kind |-> "raise", exc |-> e, value |-> v]

Pending == [kind |-> "pending", exc |-> "", value |-> PyNone]

(***************************************************************************)
(* PayeerAsyncIO.__init__                                                  *)
(***************************************************************************)
Account == PyStr("P1000000")

ApiId == PyStr("id-1")

ApiPass == PyStr("secret")

CredentialKeys == {"account", "apiId", "apiPass"}

\* self.auth_data as the constructor builds it.
InitAuthData == [account |-> Account, apiId |-> ApiId, apiPass |-> ApiPass]

(***************************************************************************)
(* PayeerAsyncIO.request, up to the transport scope: the outbound body.    *)
(***************************************************************************)
\* A faulty variant of BuildData: data = self.auth_data, without the deep copy, so that
\* data.update(kwargs) writes into the client's own mapping.
BuildDataAliased(auth, kwargs) ==
    [data |-> DictUpdate(auth, kwargs), auth_data |-> DictUpdate(auth, kwargs)]

\* A faulty variant of BuildData: the credentials are laid over the keyword arguments.
BuildDataCredentialsWin(auth, kwargs) ==
    [data |-> DictUpdate(kwargs, auth), auth_data |-> auth]

\* data = copy.deepcopy(self.auth_data); if kwargs: data.update(kwargs).
\* Yields the body and what the call leaves in self.auth_data.
BuildData(auth, kwargs) ==
    [data |-> IF Truthy(PyDict(kwargs)) THEN DictUpdate(auth, kwargs) ELSE auth,
     auth_data |-> auth]

\* A faulty variant of RequestOutcome: `errors' decides by presence, not by truth value.
RequestOutcomeByPresence(resp_json) ==
    IF "errors" \in DOMAIN resp_json
        THEN Raise("PayeerAPIException", resp_json["errors"])
        ELSE Return(PyDict(resp_json))

\* error = resp_json.get('errors'); if error: raise PayeerAPIException(error)
\* else: return resp_json.
RequestOutcome(resp_json) ==
    LET error == DictGet(resp_json, "errors")
    IN  IF Truthy(error)
            THEN Raise("PayeerAPIException", error)
            ELSE Return(PyDict(resp_json))

(***************************************************************************)
(* The convenience methods: the keyword arguments each passes to           *)
(* request(), and what each makes of request()'s outcome.                  *)
(***************************************************************************)
\* The parameters' default values of the method's signature.
Defaults(m) ==
    CASE m = "get_exchange_rate" -> [output |-> PyStr("N")]
      [] m = "transfer" ->
            [cur_in |-> PyStr("USD"), cur_out |-> PyStr("USD"), comment |-> PyNone,
             protect |-> PyNone, protect_period |-> PyNone, protect_code |-> PyNone]
      [] m \in {"check_output", "output"} ->
            [cur_in |-> PyStr("USD"), cur_out |-> PyStr("USD")]
      [] OTHER -> EmptyDict

\* A faulty variant of transfer_data: the period and the code are added whenever they
\* are truthy, outside the `if protect:' block.
transfer_data_flat(a) ==
    LET base == [action |-> PyStr("transfer"), sum |-> a["sum"], to |-> a["to"],
                 curIn |-> a["cur_in"], curOut |-> a["cur_out"]]
        c == IF Truthy(a["comment"]) THEN [comment |-> a["comment"]] ELSE EmptyDict
        p == IF Truthy(a["protect"]) THEN [protect |-> a["protect"]] ELSE EmptyDict
        pp == IF Truthy(a["protect_period"])
                THEN [protectPeriod |-> a["protect_period"]] ELSE EmptyDict
        pc_ == IF Truthy(a["protect_code"])
                THEN [protectCode |-> a["protect_code"]] ELSE EmptyDict
    IN  DictUpdate(DictUpdate(DictUpdate(DictUpdate(base, c), p), pp), pc_)

\* transfer: the data dict built after the validation of `to'.
transfer_data(a) ==
    LET base == [action |-> PyStr("transfer"), sum |-> a["sum"], to |-> a["to"],
                 curIn |-> a["cur_in"], curOut |-> a["cur_out"]]
        c == IF Truthy(a["comment"]) THEN [comment |-> a["comment"]] ELSE EmptyDict
        pp == IF Truthy(a["protect_period"])
                THEN [protectPeriod |-> a["protect_period"]] ELSE EmptyDict
        pc_ == IF Truthy(a["protect_code"])
                THEN [protectCode |-> a["protect_code"]] ELSE EmptyDict
        p == IF Truthy(a["protect"])
                THEN DictUpdate(DictUpdate([protect |-> a["protect"]], pp), pc_)
                ELSE EmptyDict
    IN  DictUpdate(DictUpdate(base, c), p)

\* A faulty variant of history_kwargs: the action is a default the caller's keys override.
history_kwargs_default(kwargs) == DictUpdate([action |-> PyStr("history")], kwargs)

\* history: kwargs['action'] = 'history'.
history_kwargs(kwargs) == DictUpdate(kwargs, [action |-> PyStr("history")])

\* output: the data dict.
output_data(a) ==
    [action |-> PyStr("output"), ps |-> a["ps"], param_ACCOUNT_NUMBER |-> a["ps_account"],
     sumIn |-> a["sum_in"], curIn |-> a["cur_in"], curOut |-> a["cur_out"]]

\* check_output: the data dict.
check_output_data(a) ==
    [action |-> PyStr("initOutput"), ps |-> a["ps"], param_ACCOUNT_NUMBER |-> a["ps_account"],
     sumIn |-> a["sum_in"], curIn |-> a["cur_in"], curOut |-> a["cur_out"]]

\* The keyword arguments method m, called with the arguments a, passes to request().
MethodKwargs(m, a) ==
    CASE m = "request" -> a
      [] m = "get_balance" -> [action |-> PyStr("balance")]
      [] m = "check_user" -> [action |-> PyStr("checkUser"), user |-> a["user"]]
      [] m = "get_exchange_rate" ->
            [action |-> PyStr("getExchangeRate"), output |-> a["output"]]
      [] m = "get_pay_systems" -> [action |-> PyStr("getPaySystems")]
      [] m = "get_history_info" ->
            [action |-> PyStr("historyInfo"), historyId |-> a["history_id"]]
      [] m = "shop_order_info" ->
            [action |-> PyStr("shopOrderInfo"), shopId |-> a["shop_id"],
             orderId |-> a["order_id"]]
      [] m = "transfer" -> transfer_data(a)
      [] m = "check_output" -> check_output_data(a)
      [] m = "output" -> output_data(a)
      [] m = "history" -> history_kwargs(a)

\* The methods that subscript the envelope, and the key each reads.
ProjectionKey ==
    [get_balance |-> "balance", get_exchange_rate |-> "rate", get_pay_systems |-> "list",
     get_history_info |-> "info", history |-> "history"]

\* (await self.request(...))[key]: a raised error passes through, a missing key
\* raises KeyError.
Subscript(key, out) ==
    IF out.kind # "return" THEN out
    ELSE IF key \in DOMAIN out.value.dict THEN Return(out.value.dict[key])
    ELSE Raise("KeyError", PyStr(key))

\* A faulty variant of CheckResult: a bare `except:' turns every failure into False.
CheckResultCatchAll(out) ==
    IF out.kind = "raise" THEN Return(PyBool(FALSE)) ELSE Return(PyBool(TRUE))

\* check_user, check_output: try: await self.request(...)
\* except PayeerAPIException: return False; return True.
CheckResult(out) ==
    IF out.kind = "raise" /\ out.exc = "PayeerAPIException" THEN Return(PyBool(FALSE))
    ELSE IF out.kind = "return" THEN Return(PyBool(TRUE))
    ELSE out

\* A faulty variant of Finish: get_balance returns the whole envelope.
FinishUnprojected(m, out) ==
    IF m \in {"check_user", "check_output"} THEN CheckResult(out)
    ELSE IF m \in DOMAIN ProjectionKey \ {"get_balance"} THEN Subscript(ProjectionKey[m], out)
    ELSE out

\* What method m makes of the outcome of its request() call.
Finish(m, out) ==
    IF m \in {"check_user", "check_output"} THEN CheckResult(out)
    ELSE IF m \in DOMAIN ProjectionKey THEN Subscript(ProjectionKey[m], out)
    ELSE out

(***************************************************************************)
(* The transport scope: async with httpx.AsyncClient() as client.          *)
(***************************************************************************)
\* A faulty variant of TransportAfterExit: client = httpx.AsyncClient() closed by a
\* trailing aclose() that a raised error skips.
TransportAfterExitLeaky(out) == IF out.kind = "raise" THEN "open" ELSE "released"

\* __aexit__ runs on every way out of the block.
TransportAfterExit(out) == "released"

(***************************************************************************)
(* Bounds and inputs.                                                      *)
(***************************************************************************)
\* The calls that may be in flight at once.
MaxCalls == 2

\* The longest string of the validator's exhaustive inputs.
MaxWalletLen == 6

\* The longest run of digits after the first character of a Payeer-like input.
MaxRun == 16

Calls == 1..MaxCalls

RECURSIVE Strings(_, _)
\* The strings over the alphabet of length at most n.
Strings(alphabet, n) ==
    IF n = 0 THEN {<<>>}
    ELSE LET shorter == Strings(alphabet, n - 1)
         IN  shorter \cup {Append(s, ch) : s \in {x \in shorter : Len(x) = n - 1},
                                            ch \in alphabet}

Ones(n) == [i \in 1..n |-> "1"]

\* The inputs the specification names.
NamedWallets ==
    { <<"P","1","0","0","0","0","0","0">>,
      <<"p","1","2","3","4","5","6","7","8","9","0","1","2","3","4","5">>,
      <<"a","@","b",".","c","o">>,
      <<"P","1","2","3","4","5","6">>,
      <<"n","o","t","-","a","n","-","a","c","c","o","u","n","t">> }

\* A first character, a run of digits, a tail.
PayeerLikeWallets ==
    { <<first>> \o Ones(n) \o tail :
        first \in {"P", "p", "1"}, n \in 0..MaxRun,
        tail \in {<<>>, <<"x">>, <<"\n">>, <<"\n", "x">>} }

\* What validate_account is called with.
WalletInputs ==
    Strings({"a", "@", ".", "\n"}, MaxWalletLen) \cup PayeerLikeWallets
        \cup NamedWallets

\* The envelopes the API answers with.
FullEnvelope ==
    [balance |-> PyStr("10.00"), rate |-> PyStr("rates"), list |-> PyStr("systems"),
     info |-> PyStr("details"), history |-> PyStr("records"), auth_error |-> PyStr("0")]

Envelopes ==
    { FullEnvelope,
      DictUpdate(FullEnvelope, [errors |-> PyList(<<>>)]),
      DictUpdate(FullEnvelope, [errors |-> PyList(<<"denied">>)]),
      [errors |-> PyStr("Invalid request")],
      [auth_error |-> PyStr("0")] }

NoResponse == [kind |-> "none", body |-> EmptyDict]

\* What the POST may end with: a JSON object, a transport failure, a body
\* that is no JSON.
Responses ==
    {[kind |-> "json", body |-> e] : e \in Envelopes}
        \cup {[kind |-> "transport_error", body |-> EmptyDict],
              [kind |-> "not_json", body |-> EmptyDict]}

\* Keyword arguments of a direct request() call.
RequestKwargs ==
    { EmptyDict,
      [action |-> PyStr("balance")],
      [account |-> PyStr("P6666666"), ref |-> PyStr("r1")] }

\* Keyword arguments of history().
HistoryKwargs ==
    { EmptyDict,
      [sort |-> PyStr("asc"), count |-> PyInt(10)],
      [action |-> PyStr("transfer"), apiPass |-> PyStr("other")] }

\* Arguments of transfer(): `to' valid and invalid, every optional argument absent
\* (None), falsy and truthy.
TransferArgs ==
    { [sum |-> PyInt(5), to |-> PyStr(w), comment |-> c, protect |-> p,
       protect_period |-> pp, protect_code |-> pcode] :
        w \in NamedWallets \ {<<"p","1","2","3","4","5","6","7","8","9","0","1","2","3","4","5">>},
        c \in {PyNone, PyStr(""), PyStr("gift")},
        p \in {PyNone, PyStr(""), PyStr("Y")},
        pp \in {PyNone, PyInt(0), PyInt(3)},
        pcode \in {PyNone, PyStr("1234")} }

PayoutArgs == [ps |-> PyInt(1136053), ps_account |-> PyStr("P1000000"), sum_in |-> PyInt(1)]

Invocation(m, a) == [method |-> m, supplied |-> a]

\* The calls of the whole interface.
ApiCalls ==
    {Invocation("request", k) : k \in RequestKwargs}
    \cup {Invocation("history", k) : k \in HistoryKwargs}
    \cup {Invocation("transfer", a) : a \in TransferArgs}
    \cup {Invocation("get_exchange_rate", a) : a \in {EmptyDict, [output |-> PyStr("Y")]}}
    \cup { Invocation("get_balance", EmptyDict),
           Invocation("get_pay_systems", EmptyDict),
           Invocation("check_user", [user |-> PyStr("P1000000")]),
           Invocation("get_history_info", [history_id |-> PyInt(42)]),
           Invocation("shop_order_info", [shop_id |-> PyInt(7), order_id |-> PyInt(9)]),
           Invocation("check_output", PayoutArgs),
           Invocation("output", PayoutArgs) }

\* The calls issued concurrently: those whose keys may collide with credentials.
ConcurrentCalls ==
    {Invocation("request", k) : k \in RequestKwargs}
    \cup {Invocation("history", k) : k \in HistoryKwargs \ {EmptyDict}}

ValidateCalls == {Invocation("validate_account", [wallet |-> PyStr(w)]) : w \in WalletInputs}

(***************************************************************************)
(* The state: the client's field, and each call's frame.                   *)
(***************************************************************************)
VARIABLES
    auth_data,  \* self.auth_data
    pc,         \* where each call is: idle, post, await, exit, done
    method,     \* the method called
    args,       \* its arguments, defaults applied
    data,       \* request()'s local `data'
    transport,  \* the call's httpx.AsyncClient: none, open, released
    sent,       \* the bodies the call has POSTed, in order
    resp,       \* what the POST ended with
    outcome,    \* how request() ended
    result      \* how the method called ended

vars == <<auth_data, pc, method, args, data, transport, sent, resp, outcome, result>>

Init ==
    /\ auth_data = InitAuthData
    /\ pc = [c \in Calls |-> "idle"]
    /\ method = [c \in Calls |-> ""]
    /\ args = [c \in Calls |-> EmptyDict]
    /\ data = [c \in Calls |-> EmptyDict]
    /\ transport = [c \in Calls |-> "none"]
    /\ sent = [c \in Calls |-> <<>>]
    /\ resp = [c \in Calls |-> NoResponse]
    /\ outcome = [c \in Calls |-> Pending]
    /\ result = [c \in Calls |-> Pending]

\* validate_account(wallet), called on its own.
Validate(c, inv) ==
    LET a == DictUpdate(Defaults(inv.method), inv.supplied) IN
    /\ pc[c] = "idle"
    /\ inv.method = "validate_account"
    /\ method' = [method EXCEPT ![c] = inv.method]
    /\ args' = [args EXCEPT ![c] = a]
    /\ result' = [result EXCEPT ![c] =
            IF ValidateAccountRaises(a["wallet"].str)
                THEN Raise("ValueError", PyStr("Wrong account format!"))
                ELSE Return(PyNone)]
    /\ pc' = [pc EXCEPT ![c] = "done"]
    /\ UNCHANGED <<auth_data, data, transport, sent, resp, outcome>>

\* A method of the client is called: it runs to the entry of the transport scope,
\* or, for transfer, to the validator's error.
Call(c, inv) ==
    LET m == inv.method
        a == DictUpdate(Defaults(m), inv.supplied)
    IN  /\ pc[c] = "idle"
        /\ m # "validate_account"
        /\ method' = [method EXCEPT ![c] = m]
        /\ args' = [args EXCEPT ![c] = a]
        /\ IF m = "transfer" /\ ValidateAccountRaises(a["to"].str)
             THEN /\ result' = [result EXCEPT ![c] =
                        Raise("ValueError", PyStr("Wrong account format!"))]
                  /\ pc' = [pc EXCEPT ![c] = "done"]
                  /\ UNCHANGED <<auth_data, data, transport>>
             ELSE LET built == BuildData(auth_data, MethodKwargs(m, a)) IN
                  /\ data' = [data EXCEPT ![c] = built.data]
                  /\ auth_data' = built.auth_data
                  /\ transport' = [transport EXCEPT ![c] = "open"]
                  /\ pc' = [pc EXCEPT ![c] = "post"]
                  /\ UNCHANGED result
        /\ UNCHANGED <<sent, resp, outcome>>

\* await client.post(self.api_url, data=data): the body goes out.
Post(c) ==
    /\ pc[c] = "post"
    /\ transport[c] = "open"
    /\ sent' = [sent EXCEPT ![c] = Append(@, data[c])]
    /\ pc' = [pc EXCEPT ![c] = "await"]
    /\ UNCHANGED <<auth_data, method, args, data, transport, resp, outcome, result>>

\* The POST's end as request() sees it: post() raises, json() raises, or the
\* parsed body is inspected.
ResponseOutcome(r) ==
    CASE r.kind = "transport_error" -> Raise("TransportError", PyNone)
      [] r.kind = "not_json" -> Raise("JSONDecodeError", PyNone)
      [] r.kind = "json" -> RequestOutcome(r.body)

\* The POST ends; request() runs to the exit of the transport scope.
Receive(c, r) ==
    /\ pc[c] = "await"
    /\ resp' = [resp EXCEPT ![c] = r]
    /\ outcome' = [outcome EXCEPT ![c] = ResponseOutcome(r)]
    /\ pc' = [pc EXCEPT ![c] = "exit"]
    /\ UNCHANGED <<auth_data, method, args, data, transport, sent, result>>

\* The transport scope is left; request() ends and the method called ends.
Exit(c) ==
    /\ pc[c] = "exit"
    /\ transport' = [transport EXCEPT ![c] = TransportAfterExit(outcome[c])]
    /\ result' = [result EXCEPT ![c] = Finish(method[c], outcome[c])]
    /\ pc' = [pc EXCEPT ![c] = "done"]
    /\ UNCHANGED <<auth_data, method, args, data, sent, resp, outcome>>

\* The caller has taken the result; the frame is gone.
Forget(c) ==
    /\ pc[c] = "done"
    /\ pc' = [pc EXCEPT ![c] = "idle"]
    /\ method' = [method EXCEPT ![c] = ""]
    /\ args' = [args EXCEPT ![c] = EmptyDict]
    /\ data' = [data EXCEPT ![c] = EmptyDict]
    /\ transport' = [transport EXCEPT ![c] = "none"]
    /\ sent' = [sent EXCEPT ![c] = <<>>]
    /\ resp' = [resp EXCEPT ![c] = NoResponse]
    /\ outcome' = [outcome EXCEPT ![c] = Pending]
    /\ result' = [result EXCEPT ![c] = Pending]
    /\ UNCHANGED auth_data

Quiet == \A c \in Calls : pc[c] = "idle"

Progress ==
    \E c \in Calls :
        \/ Post(c)
        \/ \E r \in Responses : Receive(c, r)
        \/ Exit(c)
        \/ Forget(c)

\* The caller awaits each call before it issues the next.
CallAwaited == Quiet /\ \E c \in Calls, inv \in ApiCalls : Call(c, inv)

\* The whole interface, one call at a time.
Next == CallAwaited \/ Progress

Spec == Init /\ [][Next]_vars

\* Calls issued while others are in flight.
CallConcurrent ==
    \E c \in {d \in Calls : pc[d] = "idle"}, inv \in ConcurrentCalls : Call(c, inv)

NextConcurrent == CallConcurrent \/ Progress

SpecConcurrent == Init /\ [][NextConcurrent]_vars

\* The validator on its own, one call at a time.
ValidateAwaited == Quiet /\ \E c \in Calls, inv \in ValidateCalls : Validate(c, inv)

ForgetAny == \E c \in Calls : Forget(c)

NextValidate == ValidateAwaited \/ ForgetAny

SpecValidate == Init /\ [][NextValidate]_vars

(***************************************************************************)
(* The properties.  They state Python's rules on their own terms: the      *)
(* falsy values by enumeration, the account forms by position.             *)
(***************************************************************************)
FalsyValues ==
    {PyNone, PyBool(FALSE), PyInt(0), PyStr(""), PyList(<<>>), PyDict(EmptyDict)}

\* The calls whose request() has ended.
Ended == {c \in Calls : pc[c] \in {"exit", "done"} /\ outcome[c] # Pending}

\* The calls that have POSTed.
Posted == {c \in Calls : Len(sent[c]) > 0}

\* C1: when the POST ends with a JSON object, request() raises PayeerAPIException
\* carrying the value of `errors' if that key is present with a truthy value, and
\* otherwise returns the whole object; either way the call has POSTed once.
C1_RequestOutcome ==
    \A c \in Ended :
        resp[c].kind = "json" =>
            LET e == resp[c].body IN
            /\ Len(sent[c]) = 1
            /\ IF "errors" \in DOMAIN e /\ e["errors"] \notin FalsyValues
                 THEN outcome[c] = Raise("PayeerAPIException", e["errors"])
                 ELSE outcome[c] = Return(PyDict(e))

C1_Witness ==
    \E c \in Calls :
        /\ pc[c] = "done"
        /\ resp[c].kind = "json"
        /\ "errors" \in DOMAIN resp[c].body
        /\ resp[c].body["errors"] = PyList(<<>>)
        /\ outcome[c] = Return(PyDict(resp[c].body))
        /\ Len(sent[c]) = 1

\* C2: check_user and check_output return False exactly when request() raised
\* PayeerAPIException, True when it returned, and pass every other error on;
\* every other method passes PayeerAPIException on.
C2_CheckDowngrade ==
    \A c \in Ended :
        pc[c] = "done" =>
            IF method[c] \in {"check_user", "check_output"}
              THEN /\ result[c] = Return(PyBool(FALSE))
                        <=> (outcome[c].kind = "raise" /\ outcome[c].exc = "PayeerAPIException")
                   /\ outcome[c].kind = "return" => result[c] = Return(PyBool(TRUE))
                   /\ (outcome[c].kind = "raise" /\ outcome[c].exc # "PayeerAPIException")
                        => result[c] = outcome[c]
              ELSE (outcome[c].kind = "raise" /\ outcome[c].exc = "PayeerAPIException")
                        => result[c] = outcome[c]

C2_Witness ==
    \E c \in Calls :
        /\ pc[c] = "done"
        /\ method[c] = "check_output"
        /\ resp[c].kind = "not_json"
        /\ result[c] = Raise("JSONDecodeError", PyNone)

\* The account forms, by position.
Digits == {"0", "1", "2", "3", "4", "5", "6", "7", "8", "9"}

\* P or p, then at least seven digits.
HasPayeerForm(s) ==
    /\ Len(s) >= 8
    /\ s[1] \in {"P", "p"}
    /\ \A k \in 2..8 : s[k] \in Digits

\* A non-empty local part, @, a non-empty domain, a dot, a non-empty last part.
HasEmailForm(s) ==
    \E i \in 2..Len(s), j \in 4..Len(s) :
        /\ s[i] = "@"
        /\ j > i + 1
        /\ s[j] = "."
        /\ j < Len(s)

\* s without one final line break.
Chomp(s) == IF Len(s) > 0 /\ s[Len(s)] = "\n" THEN SubSeq(s, 1, Len(s) - 1) ELSE s

\* The email form with no line break in any part; one final line break is allowed.
HasEmailFormOnOneLine(s) ==
    /\ \A k \in 1..Len(Chomp(s)) : Chomp(s)[k] # "\n"
    /\ HasEmailForm(Chomp(s))

\* C3: a transfer whose `to' has neither account form ends with ValueError at
\* once: it POSTs nothing and acquires no transport.
C3_ValidationBeforePost ==
    \A c \in Calls :
        (method[c] = "transfer"
            /\ ~HasPayeerForm(args[c]["to"].str)
            /\ ~HasEmailFormOnOneLine(args[c]["to"].str))
        => /\ pc[c] = "done"
           /\ result[c].kind = "raise"
           /\ result[c].exc = "ValueError"
           /\ transport[c] = "none"
           /\ \A d \in Calls : sent[d] = <<>>

C3_Witness ==
    \E c \in Calls :
        /\ method[c] = "transfer"
        /\ args[c]["to"] = PyStr(<<"n","o","t","-","a","n","-","a","c","c","o","u","n","t">>)
        /\ args[c]["protect"] = PyStr("Y")
        /\ result[c].exc = "ValueError"
        /\ sent[c] = <<>>

\* The body of a transfer that has one: request()'s data, and what was POSTed.
TransferBodies(c) == {data[c]} \cup {sent[c][i] : i \in 1..Len(sent[c])}

\* C4: in a transfer's body, a falsy `protect' leaves out protect, protectPeriod
\* and protectCode whatever the period and the code are; a truthy `protect' is
\* sent, with protectPeriod and protectCode each exactly when truthy; comment is
\* sent exactly when truthy.
C4_ProtectFields ==
    \A c \in Calls :
        (method[c] = "transfer" /\ transport[c] # "none") =>
            \A d \in TransferBodies(c) :
                LET a == args[c] IN
                /\ "comment" \in DOMAIN d <=> a["comment"] \notin FalsyValues
                /\ "comment" \in DOMAIN d => d["comment"] = a["comment"]
                /\ a["protect"] \in FalsyValues =>
                        DOMAIN d \cap {"protect", "protectPeriod", "protectCode"} = {}
                /\ a["protect"] \notin FalsyValues =>
                        /\ "protect" \in DOMAIN d /\ d["protect"] = a["protect"]
                        /\ "protectPeriod" \in DOMAIN d
                                <=> a["protect_period"] \notin FalsyValues
                        /\ "protectPeriod" \in DOMAIN d
                                => d["protectPeriod"] = a["protect_period"]
                        /\ "protectCode" \in DOMAIN d
                                <=> a["protect_code"] \notin FalsyValues
                        /\ "protectCode" \in DOMAIN d
                                => d["protectCode"] = a["protect_code"]

C4_Witness ==
    \E c \in Calls :
        /\ method[c] = "transfer"
        /\ args[c]["protect"] = PyNone
        /\ args[c]["protect_period"] = PyInt(3)
        /\ args[c]["protect_code"] = PyStr("1234")
        /\ Len(sent[c]) = 1
        /\ DOMAIN sent[c][1] \cap {"protect", "protectPeriod", "protectCode"} = {}

\* The validate_account calls that have ended.
Validated == {c \in Calls : method[c] = "validate_account" /\ pc[c] = "done"}

Accepted(c) == result[c] = Return(PyNone)

Rejected(c) == result[c].kind = "raise" /\ result[c].exc = "ValueError"

\* C5 as stated: validate_account accepts exactly the strings that have the
\* Payeer form or the email form, and raises ValueError for every other string.
C5_AsStated ==
    \A c \in Validated :
        LET w == args[c]["wallet"].str IN
        /\ Accepted(c) <=> (HasPayeerForm(w) \/ HasEmailForm(w))
        /\ Rejected(c) <=> ~(HasPayeerForm(w) \/ HasEmailForm(w))

\* C5 amended: validate_account accepts exactly the strings that have the Payeer
\* form, or the email form with no line break in any part (one final line break
\* aside), and raises ValueError for every other string.
C5_AcceptsExactly ==
    \A c \in Validated :
        LET w == args[c]["wallet"].str IN
        /\ Accepted(c) <=> (HasPayeerForm(w) \/ HasEmailFormOnOneLine(w))
        /\ Rejected(c) <=> ~(HasPayeerForm(w) \/ HasEmailFormOnOneLine(w))

C5_Witness ==
    \E c \in Validated :
        /\ args[c]["wallet"].str = <<"a", "@", "a", ".", "a", "\n">>
        /\ HasEmailFormOnOneLine(args[c]["wallet"].str)
        /\ Accepted(c)

\* The documented table: each method's action, and the key of the envelope it
\* returns ("" for the whole envelope).
DocumentedAction ==
    [get_balance |-> "balance", check_user |-> "checkUser",
     get_exchange_rate |-> "getExchangeRate", get_pay_systems |-> "getPaySystems",
     get_history_info |-> "historyInfo", shop_order_info |-> "shopOrderInfo",
     transfer |-> "transfer", check_output |-> "initOutput", output |-> "output",
     history |-> "history"]

DocumentedKey ==
    [get_balance |-> "balance", get_exchange_rate |-> "rate", get_pay_systems |-> "list",
     get_history_info |-> "info", history |-> "history", shop_order_info |-> "",
     transfer |-> "", output |-> ""]

C7_HistoryForwards ==
    \A c \in Posted :
        method[c] = "history" =>
            \A i \in 1..Len(sent[c]) :
                /\ sent[c][i]["action"] = PyStr("history")
                /\ \A k \in DOMAIN args[c] \ {"action"} :
                        k \in DOMAIN sent[c][i] /\ sent[c][i][k] = args[c][k]

C7_Witness ==
    \E c \in Posted :
        /\ method[c] = "history"
        /\ args[c] = [action |-> PyStr("transfer"), apiPass |-> PyStr("other")]
        /\ sent[c][1]["action"] = PyStr("history")
        /\ sent[c][1]["apiPass"] = PyStr("other")

\* C8: the body request(**extra) POSTs holds the three credential keys and
\* the keys of extra and no other; a key of extra carries the caller's value,
\* and a credential key that extra does not hold carries the constructor's value.
C8_BodyIsMerge ==
    \A c \in Posted :
        method[c] = "request" =>
            \A i \in 1..Len(sent[c]) :
                LET body == sent[c][i]
                    extra == args[c]
                IN  /\ DOMAIN body = CredentialKeys \cup DOMAIN extra
                    /\ \A k \in DOMAIN extra : body[k] = extra[k]
                    /\ "account" \notin DOMAIN extra => body["account"] = Account
                    /\ "apiId" \notin DOMAIN extra => body["apiId"] = ApiId
                    /\ "apiPass" \notin DOMAIN extra => body["apiPass"] = ApiPass

C8_Witness ==
    \E c \in Posted :
        /\ method[c] = "request"
        /\ args[c] = [account |-> PyStr("P6666666"), ref |-> PyStr("r1")]
        /\ sent[c][1] = [account |-> PyStr("P6666666"), ref |-> PyStr("r1"),
                         apiId |-> ApiId, apiPass |-> ApiPass]

\* C9: a call holds a transport from the entry of request() to its end and
\* not after; it POSTs at most once, and exactly once by the time request() has
\* ended, however it ended.
C9_TransportScoped ==
    \A c \in Calls :
        /\ Len(sent[c]) <= 1
        /\ pc[c] \in {"post", "await", "exit"} => transport[c] = "open"
        /\ pc[c] \in {"idle", "done"} => transport[c] # "open"
        /\ (pc[c] = "done" /\ outcome[c] # Pending) =>
                transport[c] = "released" /\ Len(sent[c]) = 1

C9_Witness ==
    \E c, d \in Calls :
        /\ pc[c] = "done" /\ outcome[c] = Raise("TransportError", PyNone)
        /\ transport[c] = "released"
        /\ pc[d] = "done" /\ outcome[d].exc = "PayeerAPIException"
        /\ transport[d] = "released"

\* The keys a call supplies itself.
OwnKeys(c) == IF method[c] = "history" THEN DOMAIN args[c] \cup {"action"} ELSE DOMAIN args[c]

\* C10: with calls interleaved, self.auth_data stays what the constructor
\* built; every key of a POSTed body is either the call's own, or a credential
\* key with the constructor's value; and a call that got an envelope with no
\* truthy `errors' returns that envelope (request) or its `history' (history).
C10_CallsIndependent ==
    /\ auth_data = [account |-> Account, apiId |-> ApiId, apiPass |-> ApiPass]
    /\ \A c \in Calls :
        (pc[c] = "done" /\ resp[c].kind = "json"
            /\ DictGet(resp[c].body, "errors") \in FalsyValues) =>
            /\ method[c] = "request" => result[c] = Return(PyDict(resp[c].body))
            /\ (method[c] = "history" /\ "history" \in DOMAIN resp[c].body)
                    => result[c] = Return(resp[c].body["history"])
    /\ \A c \in Posted :
        \A i \in 1..Len(sent[c]) :
            \A k \in DOMAIN sent[c][i] :
                \/ k \in OwnKeys(c)
                        /\ (k \in DOMAIN args[c] /\ ~(method[c] = "history" /\ k = "action")
                                => sent[c][i][k] = args[c][k])
                \/ k \notin OwnKeys(c)
                        /\ k \in CredentialKeys
                        /\ sent[c][i][k] = InitAuthData[k]

C10_Witness ==
    \E c, d \in Posted :
        /\ c # d
        /\ pc[c] = "await" /\ pc[d] = "await"
        /\ method[c] = "request" /\ "account" \in DOMAIN args[c]
        /\ sent[c][1]["account"] = PyStr("P6666666")
        /\ sent[d][1]["account"] = Account
        /\ "ref" \notin DOMAIN sent[d][1]
=============================================================================
